---- MODULE Spec2Model ----
(***************************************************************************)
(* The PDF microservice (Express + puppeteer).  Two deployable files are   *)
(* modelled: src/server.js, whose GET /generate-pdf re-dispatches a        *)
(* synthetic POST through the router, and src/unnamed/part_000, whose GET  *)
(* /generate-pdf carries its own copy of the generation steps.             *)
(*                                                                         *)
(* Node runs one callback at a time: everything a handler does between two *)
(* awaits is one atomic action.  The rendering engine (puppeteer) is the   *)
(* environment: each awaited call completes with success or failure, and   *)
(* page.goto may also never complete; its timer fires only for a timeout   *)
(* greater than 0 (puppeteer: "pass 0 to disable the timeout").            *)
(***************************************************************************)
EXTENDS Integers, Sequences, FiniteSets, TLC

VARIABLES
    phase,      \* "boot" | "listening" | "exited"
    variant,    \* which file is deployed: "server.js" | "part_000"
    envKey,     \* process.env.API_KEY (optional string)
    nodeEnv,    \* process.env.NODE_ENV (optional string)
    API_KEY,    \* the constant read at line 9
    ses         \* one record per request slot

vars == <<phase, variant, envKey, nodeEnv, API_KEY, ses>>

(***************************************************************************)
(* JavaScript values.  An optional value is a tuple: <<>> is undefined,    *)
(* <<v>> is the value v.                                                   *)
(***************************************************************************)
None == <<>>

Some(v) == <<v>>

\* JS truthiness of an optional string: undefined and "" are falsy
Truthy(o) == o # None /\ o[1] # ""

\* a || b
Or(a, b) == IF Truthy(a) THEN a ELSE b

\* destructuring default: applies when the property is undefined only
Default(o, d) == IF o = None THEN d ELSE o[1]

(***************************************************************************)
(* Bounds                                                                  *)
(***************************************************************************)
\* request slots (concurrently open connections)
MaxReqs == 2

\* longest exported document, in bytes
MaxPdfLen == 1

\* a caller-supplied POST timeout, in ms
CallerTimeout == 5

Slots == 1..MaxReqs

PdfByte == {37, 80}

PdfBuffers == UNION {[1..n -> PdfByte] : n \in 0..MaxPdfLen}

(***************************************************************************)
(* Requests                                                                *)
(***************************************************************************)
Creds == {None, Some(""), Some("k1"), Some("k2")}

Urls == {None, Some(""), Some("u")}

NoBody == [url |-> None, format |-> None, landscape |-> None, margin |-> None,
           waitUntil |-> None, timeout |-> None]

NoQuery == [url |-> None, format |-> None, landscape |-> None,
            viewport_width |-> None, viewport_height |-> None]

\* a query-string value as its characters
Chars(str) == CASE str = "800" -> <<"8", "0", "0">>
                [] str = "600" -> <<"6", "0", "0">>
                [] str = "12px" -> <<"1", "2", "p", "x">>
                [] str = "0" -> <<"0">>
                [] str = "abc" -> <<"a", "b", "c">>
                [] OTHER -> <<>>

\* viewport_width and viewport_height as a caller may send them: absent,
\* numeric, numeric with a unit suffix and zero, not a number
ViewportQueries ==
    { <<None, None>>, <<Some("800"), Some("600")>>,
      <<Some("12px"), Some("0")>>, <<Some("abc"), None>> }

\* the optional fields of a POST body: all defaulted, all supplied, timeout 0,
\* format only
BodyOptions ==
    { [NoBody EXCEPT !.format = f, !.landscape = l, !.margin = m,
                     !.waitUntil = w, !.timeout = t] :
        <<f, l, m, w, t>> \in
          { <<None, None, None, None, None>>,
            <<Some("Letter"), Some(TRUE), Some("0mm"), Some("load"),
              Some(CallerTimeout)>>,
            <<None, None, None, None, Some(0)>>,
            <<Some("Letter"), None, None, None, None>> } }

Bodies == { [o EXCEPT !.url = u] : o \in BodyOptions, u \in Urls }

Queries ==
    { [url |-> u, format |-> f, landscape |-> l,
       viewport_width |-> v[1], viewport_height |-> v[2]] :
        u \in Urls, f \in {None, Some("Letter")}, l \in {None, Some("true")},
        v \in ViewportQueries }

HealthRequests == [method : {"GET"}, path : {"/health"}, hdrKey : Creds,
                   qKey : {None}, query : {NoQuery}, body : {NoBody}]

GetRequests == [method : {"GET"}, path : {"/generate-pdf"}, hdrKey : Creds,
                qKey : Creds, query : Queries, body : {NoBody}]

PostRequests == [method : {"POST"}, path : {"/generate-pdf"}, hdrKey : Creds,
                 qKey : Creds, query : {NoQuery}, body : Bodies]

DebugRequests == [method : {"GET"}, path : {"/debug"},
                  hdrKey : {None, Some(""), Some("k1")}, qKey : {None, Some("k2")},
                  query : {NoQuery}, body : {NoBody}]

AllRequests == HealthRequests \cup DebugRequests \cup GetRequests \cup PostRequests

NoRq == [method |-> "", path |-> "", hdrKey |-> None, qKey |-> None,
         query |-> NoQuery, body |-> NoBody]

(***************************************************************************)
(* Responses                                                               *)
(***************************************************************************)
NoRes == [status |-> 0, error |-> "", message |-> "", stack |-> FALSE,
          ctype |-> "", cdisp |-> "", clen |-> None, payload |-> <<>>,
          json |-> "", debug |-> None]

JsonError(code, err) == [NoRes EXCEPT !.status = code, !.error = err,
                                      !.ctype = "application/json"]

\* the locals of a generation handler
NoLoc == [url |-> "", format |-> None, landscape |-> FALSE, margin |-> "",
          waitUntil |-> "", timeout |-> 0]

NoNav == [url |-> "", waitUntil |-> "", timeout |-> 0]

NoPdfOpts == [format |-> None, landscape |-> FALSE, margin |-> "",
              printBackground |-> FALSE, width |-> None]

IdleSes == [rq |-> NoRq, handler |-> "none", pc |-> "idle", loc |-> NoLoc,
            browser |-> "none", launches |-> 0, closes |-> 0,
            vp |-> None, nav |-> NoNav, pdfOpts |-> NoPdfOpts, pdf |-> None,
            res |-> NoRes, sends |-> 0, requestBody |-> None,
            calls |-> <<>>, outcomes |-> <<>>, cut |-> FALSE]

Init ==
    /\ phase = "boot"
    /\ variant \in {"server.js", "part_000"}
    /\ envKey \in {None, Some(""), Some("k1"), Some("k2")}
    /\ nodeEnv \in {None, Some("development")}
    /\ API_KEY = None
    /\ ses = [r \in Slots |-> IdleSes]

(***************************************************************************)
(* Boot: the key is read once; a falsy key exits before app.listen         *)
(***************************************************************************)
\* mutant: boot does not exit on a missing secret
Boot_NoExit ==
    /\ phase = "boot"
    /\ API_KEY' = envKey
    /\ phase' = "listening"
    /\ UNCHANGED <<variant, envKey, nodeEnv, ses>>

Boot ==
    /\ phase = "boot"
    /\ API_KEY' = envKey
    /\ phase' = IF ~Truthy(envKey) THEN "exited" ELSE "listening"
    /\ UNCHANGED <<variant, envKey, nodeEnv, ses>>

(***************************************************************************)
(* requireApiKey: "next", or the 401 response it sends                     *)
(***************************************************************************)
\* mutant: the query parameter takes precedence over the header
apiKeyOf_QueryFirst(rq) == Or(rq.qKey, rq.hdrKey)

apiKeyOf(rq) == Or(rq.hdrKey, rq.qKey)

\* mutant: a missing key is reported as an invalid one
requireApiKey_OneMessage(rq) ==
    IF apiKeyOf(rq) # API_KEY THEN JsonError(401, "Invalid API key") ELSE NoRes

requireApiKey(rq) ==
    IF ~Truthy(apiKeyOf(rq)) THEN JsonError(401, "API key required")
    ELSE IF apiKeyOf(rq) # API_KEY THEN JsonError(401, "Invalid API key")
    ELSE NoRes

AuthPasses(rq) == requireApiKey(rq) = NoRes

\* res.status(code).json(...) / res.end(): the response leaves the handler
Send(s, response) == [s EXCEPT !.res = response, !.sends = @ + 1, !.pc = "done"]

\* mutant: the stack is sent whatever NODE_ENV is
CatchResponse_AlwaysStack(msg) ==
    [JsonError(500, "Failed to generate PDF") EXCEPT !.message = msg, !.stack = TRUE]

\* the catch block of a generation handler
CatchResponse(msg) ==
    [JsonError(500, "Failed to generate PDF") EXCEPT
        !.message = msg, !.stack = (nodeEnv = Some("development"))]

Catch(s, msg) == Send(s, CatchResponse(msg))

\* the handler calls an engine operation and suspends on it
Called(s, name) == [s EXCEPT !.calls = Append(@, name), !.pc = name]

\* the awaited engine call resolved (ok) or rejected
Settled(s, ok) == [s EXCEPT !.outcomes = Append(@, ok)]

\* puppeteer.launch(...) is called
CallLaunch(s) == Called([s EXCEPT !.launches = @ + 1], "launch")

(***************************************************************************)
(* GET /health                                                             *)
(***************************************************************************)
HealthResponse == [NoRes EXCEPT !.status = 200, !.ctype = "application/json",
                                !.json = "ok"]

\* mutant: /health mounted behind requireApiKey
HealthRoute_RequiresKey(s, rq) ==
    IF AuthPasses(rq)
    THEN Send([s EXCEPT !.rq = rq, !.handler = "health"], HealthResponse)
    ELSE Send([s EXCEPT !.rq = rq], requireApiKey(rq))

HealthRoute(s, rq) == Send([s EXCEPT !.rq = rq, !.handler = "health"], HealthResponse)

ReqHealth(r, rq) ==
    /\ phase = "listening"
    /\ ses[r].pc = "idle"
    /\ rq.method = "GET" /\ rq.path = "/health"
    /\ ses' = [ses EXCEPT ![r] = HealthRoute(@, rq)]
    /\ UNCHANGED <<phase, variant, envKey, nodeEnv, API_KEY>>

(***************************************************************************)
(* GET /debug (src/unnamed/part_000 only; src/server.js has no such route  *)
(* and Express answers 404)                                                *)
(***************************************************************************)
\* mutant: the snapshot tells whether the header equals the secret
DebugResponse_TellsMatch(key, rq) ==
    [NoRes EXCEPT !.status = 200, !.ctype = "application/json",
        !.debug = Some([hasApiKey |-> Truthy(key),
                        apiKeyLength |-> IF Truthy(key) THEN Len(key[1]) ELSE 0,
                        headers |-> IF rq.hdrKey = key THEN "header present"
                                    ELSE "no header",
                        query |-> IF Truthy(rq.qKey) THEN "query present"
                                  ELSE "no query",
                        viewportWidth |-> 1800, margins |-> "removed"])]

\* the snapshot, for process.env.API_KEY = key
DebugResponse(key, rq) ==
    [NoRes EXCEPT !.status = 200, !.ctype = "application/json",
        !.debug = Some([hasApiKey |-> Truthy(key),
                        apiKeyLength |-> IF Truthy(key) THEN Len(key[1]) ELSE 0,
                        headers |-> IF Truthy(rq.hdrKey) THEN "header present"
                                    ELSE "no header",
                        query |-> IF Truthy(rq.qKey) THEN "query present"
                                  ELSE "no query",
                        viewportWidth |-> 1800, margins |-> "removed"])]

NotFound == [NoRes EXCEPT !.status = 404, !.ctype = "text/html"]

DebugRoute(s, rq) ==
    IF variant = "part_000"
    THEN Send([s EXCEPT !.rq = rq, !.handler = "debug"], DebugResponse(envKey, rq))
    ELSE Send([s EXCEPT !.rq = rq], NotFound)

ReqDebug(r, rq) ==
    /\ phase = "listening"
    /\ ses[r].pc = "idle"
    /\ rq.method = "GET" /\ rq.path = "/debug"
    /\ ses' = [ses EXCEPT ![r] = DebugRoute(@, rq)]
    /\ UNCHANGED <<phase, variant, envKey, nodeEnv, API_KEY>>

(***************************************************************************)
(* POST /generate-pdf: the handler up to its first await                   *)
(***************************************************************************)
DefaultTimeout == 30000

\* the destructuring of req.body with its defaults
PostLocals(body) ==
    [url |-> Default(body.url, ""),
     format |-> Some(Default(body.format, "A4")),
     landscape |-> Default(body.landscape, FALSE),
     margin |-> Default(body.margin, "12mm"),
     waitUntil |-> Default(body.waitUntil, "networkidle0"),
     timeout |-> Default(body.timeout, DefaultTimeout)]

\* mutant: the url check is missing
PostStart_NoUrlCheck(s, body) == CallLaunch([s EXCEPT !.loc = PostLocals(body)])

PostStart(s, body) ==
    IF ~Truthy(body.url) THEN Send(s, JsonError(400, "URL is required"))
    ELSE CallLaunch([s EXCEPT !.loc = PostLocals(body)])

\* mutant: the handler's url check runs ahead of the middleware
PostRoute_ValidatesFirst(s, rq) ==
    IF ~Truthy(rq.body.url)
    THEN Send([s EXCEPT !.rq = rq, !.handler = "post"], JsonError(400, "URL is required"))
    ELSE IF AuthPasses(rq)
         THEN PostStart([s EXCEPT !.rq = rq, !.handler = "post"], rq.body)
         ELSE Send([s EXCEPT !.rq = rq], requireApiKey(rq))

\* the route: requireApiKey, then the handler
PostRoute(s, rq) ==
    IF AuthPasses(rq)
    THEN PostStart([s EXCEPT !.rq = rq, !.handler = "post"], rq.body)
    ELSE Send([s EXCEPT !.rq = rq], requireApiKey(rq))

ReqPost(r, rq) ==
    /\ phase = "listening"
    /\ ses[r].pc = "idle"
    /\ rq.method = "POST" /\ rq.path = "/generate-pdf"
    /\ ses' = [ses EXCEPT ![r] = PostRoute(@, rq)]
    /\ UNCHANGED <<phase, variant, envKey, nodeEnv, API_KEY>>

(***************************************************************************)
(* GET /generate-pdf, src/unnamed/part_000: its own generation steps       *)
(***************************************************************************)
GetLocals(query) == [NoLoc EXCEPT !.url = Default(query.url, "")]

DigitValue(c) == CASE c = "0" -> 0 [] c = "1" -> 1 [] c = "2" -> 2 [] c = "3" -> 3
                   [] c = "4" -> 4 [] c = "5" -> 5 [] c = "6" -> 6 [] c = "7" -> 7
                   [] c = "8" -> 8 [] c = "9" -> 9 [] OTHER -> -1

\* the value of the longest prefix of decimal digits of cs, after the digits
\* already read (acc); None when no digit was read (NaN)
RECURSIVE ParseDigits(_, _, _)
ParseDigits(cs, acc, any) ==
    IF cs = <<>> \/ DigitValue(Head(cs)) < 0
    THEN (IF any THEN Some(acc) ELSE None)
    ELSE ParseDigits(Tail(cs), acc * 10 + DigitValue(Head(cs)), TRUE)

\* parseInt of an optional query value: undefined parses to NaN
parseInt(o) == IF o = None THEN None ELSE ParseDigits(Chars(o[1]), 0, FALSE)

\* parseInt(x) || d: NaN and 0 are falsy
ParseIntOr(o, d) ==
    IF parseInt(o) = None \/ parseInt(o) = Some(0) THEN d ELSE parseInt(o)[1]

DefaultViewportWidth == 1440

DefaultViewportHeight == 900

\* the requestBody object the handler builds (and does not read again)
RequestBodyOf(query) ==
    [url |-> query.url,
     format |-> Or(query.format, Some("A4")),
     landscape |-> (query.landscape = Some("true")),
     viewport_width |-> ParseIntOr(query.viewport_width, DefaultViewportWidth),
     viewport_height |-> ParseIntOr(query.viewport_height, DefaultViewportHeight)]

GetStart(s, query) ==
    IF ~Truthy(query.url) THEN Send(s, JsonError(400, "URL parameter is required"))
    ELSE CallLaunch([s EXCEPT !.loc = GetLocals(query),
                              !.requestBody = Some(RequestBodyOf(query))])

(***************************************************************************)
(* GET /generate-pdf, src/server.js: builds req.body and hands the object  *)
(* {method: 'POST', url: '/generate-pdf', body} to app._router.handle.     *)
(* That object has no headers and no query string, so the router runs      *)
(* requireApiKey on a request without a credential.  Where reading         *)
(* req.headers of the bare object throws (headersReadable = FALSE), the    *)
(* error reaches the router's undefined final callback and the request is  *)
(* left unanswered.                                                        *)
(***************************************************************************)
ForwardedBody(query) ==
    [NoBody EXCEPT !.url = query.url,
                   !.format = Or(query.format, Some("A4")),
                   !.landscape = Some(query.landscape = Some("true"))]

ForwardedRequest(query) ==
    [NoRq EXCEPT !.method = "POST", !.path = "/generate-pdf",
                 !.body = ForwardedBody(query)]

RouterHandle(s, fwd, headersReadable) ==
    IF ~headersReadable THEN [s EXCEPT !.pc = "unanswered"]
    ELSE IF AuthPasses(fwd) THEN PostStart([s EXCEPT !.handler = "post"], fwd.body)
    ELSE Send(s, requireApiKey(fwd))

GetForward(s, query, headersReadable) ==
    IF ~Truthy(query.url) THEN Send(s, JsonError(400, "URL parameter is required"))
    ELSE RouterHandle(s, ForwardedRequest(query), headersReadable)

GetRoute(s, rq, headersReadable) ==
    IF ~AuthPasses(rq) THEN Send([s EXCEPT !.rq = rq], requireApiKey(rq))
    ELSE IF variant = "server.js"
         THEN GetForward([s EXCEPT !.rq = rq, !.handler = "get"], rq.query,
                         headersReadable)
         ELSE GetStart([s EXCEPT !.rq = rq, !.handler = "get"], rq.query)

ReqGet(r, rq) ==
    /\ phase = "listening"
    /\ ses[r].pc = "idle"
    /\ rq.method = "GET" /\ rq.path = "/generate-pdf"
    /\ \E headersReadable \in BOOLEAN :
          ses' = [ses EXCEPT ![r] = GetRoute(@, rq, headersReadable)]
    /\ UNCHANGED <<phase, variant, envKey, nodeEnv, API_KEY>>

(***************************************************************************)
(* The generation steps.  Each action is the completion of one awaited     *)
(* engine call and the handler's code up to the next await.                *)
(***************************************************************************)
\* page.setViewport argument
ViewportOf(s) ==
    IF variant = "server.js" THEN Some([width |-> 1200, height |-> 800])
    ELSE Some([width |-> 1800, height |-> 900])

\* page.goto arguments
NavOf(s) ==
    IF s.handler = "post"
    THEN [url |-> s.loc.url, waitUntil |-> s.loc.waitUntil, timeout |-> s.loc.timeout]
    ELSE [url |-> s.loc.url, waitUntil |-> "networkidle0", timeout |-> DefaultTimeout]

\* page.pdf options
PdfOptionsOf(s) ==
    IF s.handler = "post"
    THEN [format |-> s.loc.format, landscape |-> s.loc.landscape,
          margin |-> s.loc.margin, printBackground |-> TRUE, width |-> None]
    ELSE [format |-> None, landscape |-> FALSE, margin |-> "0mm",
          printBackground |-> TRUE, width |-> Some("1800px")]

\* mutant: Content-Length counts one byte more than is written
SuccessResponse_LongerLength(pdf) ==
    [NoRes EXCEPT !.status = 200, !.ctype = "application/pdf",
                  !.cdisp = "attachment; filename=\"document.pdf\"",
                  !.clen = Some(Len(pdf) + 1), !.payload = pdf]

\* the headers and the body written on success
SuccessResponse(pdf) ==
    [NoRes EXCEPT !.status = 200, !.ctype = "application/pdf",
                  !.cdisp = "attachment; filename=\"document.pdf\"",
                  !.clen = Some(Len(pdf)), !.payload = pdf]

AfterLaunch(s, ok) ==
    IF ok THEN Called([Settled(s, TRUE) EXCEPT !.browser = "open"], "newPage")
    ELSE Catch(Settled(s, FALSE), "launch failed")

AfterNewPage(s, ok) ==
    IF ok THEN Called([Settled(s, TRUE) EXCEPT !.vp = ViewportOf(s)], "setViewport")
    ELSE Catch(Settled(s, FALSE), "newPage failed")

AfterSetViewport(s, ok) ==
    IF ok THEN Called([Settled(s, TRUE) EXCEPT !.nav = NavOf(s)], "goto")
    ELSE Catch(Settled(s, FALSE), "setViewport failed")

\* mutant: the export is requested whether or not the navigation succeeded
AfterGoto_IgnoresFailure(s, ok) ==
    Called([Settled(s, ok) EXCEPT !.pdfOpts = PdfOptionsOf(s)], "pdf")

AfterGoto(s, ok) ==
    IF ok THEN Called([Settled(s, TRUE) EXCEPT !.pdfOpts = PdfOptionsOf(s)], "pdf")
    ELSE Catch(Settled(s, FALSE), "navigation failed")

AfterGotoTimeout(s) == Catch(Settled(s, FALSE), "Navigation timeout")

\* page.pdf resolved with a buffer: browser.close() is called
AfterPdf(s, ok, buf) ==
    IF ok THEN Called([Settled(s, TRUE) EXCEPT !.pdf = Some(buf), !.closes = @ + 1],
                      "close")
    ELSE Catch(Settled(s, FALSE), "pdf failed")

\* mutant: the document is written before browser.close() has settled, and a
\* rejected close still reaches the catch block
AfterClose_WritesFirst(s, ok, ended, lost) ==
    IF ok THEN Send([Settled(s, TRUE) EXCEPT !.browser = "closed", !.cut = lost],
                    SuccessResponse(s.pdf[1]))
    ELSE Catch(Send([Settled(s, FALSE) EXCEPT
                        !.browser = IF ended THEN "closed" ELSE "open"],
                    SuccessResponse(s.pdf[1])),
               "close failed")

\* browser.close() settled; a rejected close may or may not have ended the
\* process.  After a resolved close the headers and the buffer are written:
\* res.write and res.end do not throw when the connection is lost (lost), the
\* handler goes on to its end and the client gets a truncated body.
AfterClose(s, ok, ended, lost) ==
    IF ok THEN Send([Settled(s, TRUE) EXCEPT !.browser = "closed", !.cut = lost],
                    SuccessResponse(s.pdf[1]))
    ELSE Catch([Settled(s, FALSE) EXCEPT
                   !.browser = IF ended THEN "closed" ELSE "open"],
               "close failed")

\* mutant: every handler works on one browser kept outside the handlers
BrowserOf_Shared(r) == CHOOSE q \in Slots : \A p \in Slots : q <= p

\* the request whose browser the binding `browser` of handler r refers to:
\* `const browser` is local to each call of the handler
BrowserOf(r) == r

\* handler r resumes at `at`; what it does to its engine lands on the browser
\* its binding refers to
Step(r, at, after) ==
    /\ ses[r].pc = at
    /\ LET b == BrowserOf(r)
       IN  ses' = [q \in Slots |->
                    IF q = r
                    THEN [after EXCEPT !.browser = IF b = r THEN @ ELSE ses[r].browser]
                    ELSE IF q = b THEN [ses[q] EXCEPT !.browser = after.browser]
                    ELSE ses[q]]
    /\ UNCHANGED <<phase, variant, envKey, nodeEnv, API_KEY>>

LaunchDone(r) == \E ok \in BOOLEAN : Step(r, "launch", AfterLaunch(ses[r], ok))

NewPageDone(r) == \E ok \in BOOLEAN : Step(r, "newPage", AfterNewPage(ses[r], ok))

SetViewportDone(r) ==
    \E ok \in BOOLEAN : Step(r, "setViewport", AfterSetViewport(ses[r], ok))

GotoDone(r) == \E ok \in BOOLEAN : Step(r, "goto", AfterGoto(ses[r], ok))

\* the navigation timer; a timeout of 0 disables it
GotoTimeout(r) ==
    /\ ses[r].nav.timeout > 0
    /\ Step(r, "goto", AfterGotoTimeout(ses[r]))

PdfDone(r) ==
    \/ \E buf \in PdfBuffers : Step(r, "pdf", AfterPdf(ses[r], TRUE, buf))
    \/ Step(r, "pdf", AfterPdf(ses[r], FALSE, <<>>))

CloseDone(r) ==
    \E ok \in BOOLEAN, ended \in BOOLEAN, lost \in BOOLEAN :
        /\ ok => ~ended
        /\ ~ok => ~lost
        /\ Step(r, "close", AfterClose(ses[r], ok, ended, lost))

(***************************************************************************)
(* Specifications.  Requests share no state, so Spec follows one request   *)
(* at a time through every input of AllRequests.                           *)
(***************************************************************************)
Arrive(r) ==
    \E rq \in AllRequests :
        ReqHealth(r, rq) \/ ReqDebug(r, rq) \/ ReqPost(r, rq) \/ ReqGet(r, rq)

Progress(r) ==
    \/ LaunchDone(r) \/ NewPageDone(r) \/ SetViewportDone(r)
    \/ GotoDone(r) \/ GotoTimeout(r) \/ PdfDone(r) \/ CloseDone(r)

Next == Boot \/ Arrive(1) \/ Progress(1)

Spec == Init /\ [][Next]_vars

\* the engine settles every call except a navigation that never completes,
\* and an armed navigation timer fires
Fairness ==
    /\ WF_vars(LaunchDone(1)) /\ WF_vars(NewPageDone(1))
    /\ WF_vars(SetViewportDone(1)) /\ WF_vars(GotoTimeout(1))
    /\ WF_vars(PdfDone(1)) /\ WF_vars(CloseDone(1))

FairSpec == Spec /\ Fairness

(***************************************************************************)
(* Two requests in flight at once, over a smaller set of requests: one     *)
(* secret, a right or a wrong header key, a url or none, layout fields all *)
(* absent or all supplied.                                                 *)
(***************************************************************************)
CoreGets ==
    { [NoRq EXCEPT !.method = "GET", !.path = "/generate-pdf", !.hdrKey = k,
                   !.query = [NoQuery EXCEPT !.url = u, !.format = f[1],
                                             !.landscape = f[2]]] :
        k \in {Some("k1"), Some("k2")}, u \in {None, Some("u")},
        f \in { <<None, None>>, <<Some("Letter"), Some("true")>> } }

CorePosts ==
    { [NoRq EXCEPT !.method = "POST", !.path = "/generate-pdf", !.hdrKey = k,
                   !.body = [NoBody EXCEPT !.url = u, !.format = f[1],
                                           !.landscape = f[2]]] :
        k \in {Some("k1"), Some("k2")}, u \in {None, Some("u")},
        f \in { <<None, None>>, <<Some("Letter"), Some(TRUE)>> } }

CoreRequests == CoreGets \cup CorePosts

ConcInit ==
    /\ phase = "boot"
    /\ variant \in {"server.js", "part_000"}
    /\ envKey = Some("k1")
    /\ nodeEnv = None
    /\ API_KEY = None
    /\ ses = [r \in Slots |-> IdleSes]

ArriveCore(r) == \E rq \in CoreRequests : ReqPost(r, rq) \/ ReqGet(r, rq)

ConcNext == Boot \/ \E r \in Slots : ArriveCore(r) \/ Progress(r)

ConcSpec == ConcInit /\ [][ConcNext]_vars

(***************************************************************************)
(* Vocabulary of the properties                                            *)
(***************************************************************************)
GenPaths == {"/generate-pdf"}

Arrived(s) == s.pc # "idle"

Answered(s) == s.res.status # 0

IsGeneration(s) == Arrived(s) /\ s.rq.path \in GenPaths

\* the target address of a request, where its method carries it
TargetOf(rq) == IF rq.method = "POST" THEN rq.body.url ELSE rq.query.url

\* the one credential the middleware looks at
CheckedKey(rq) ==
    IF rq.hdrKey # None /\ rq.hdrKey # Some("") THEN rq.hdrKey ELSE rq.qKey

HandlerRan(s) == s.handler \in {"get", "post"}

Is401(res) ==
    /\ res.status = 401
    /\ res.error \in {"API key required", "Invalid API key"}

\* the suspension points of a generation handler
GenPcs == {"launch", "newPage", "setViewport", "goto", "pdf", "close"}

EngineOrder == <<"launch", "newPage", "setViewport", "goto", "pdf", "close">>

IsPrefix(a, b) == Len(a) <= Len(b) /\ a = SubSeq(b, 1, Len(a))

\* error.message of each step that can reject
StepFailures == {"launch failed", "newPage failed", "setViewport failed",
                 "navigation failed", "Navigation timeout", "pdf failed",
                 "close failed"}

\* a GET and a POST that carry the same credential, url, format and landscape
EquivalentInputs(g, p) ==
    /\ g.method = "GET" /\ g.path \in GenPaths
    /\ p.method = "POST" /\ p.path \in GenPaths
    /\ g.hdrKey = p.hdrKey /\ g.qKey = p.qKey
    /\ g.query.url = p.body.url
    /\ g.query.format = p.body.format
    /\ (g.query.landscape = Some("true")) = (p.body.landscape = Some(TRUE))

(***************************************************************************)
(* C1: every generation request that launched a browser has, once its      *)
(* handler has answered, launched exactly one browser and closed it        *)
(* exactly once, and no browser is left open.                              *)
(***************************************************************************)
C1_OneLaunchOneClose ==
    \A r \in Slots :
        (ses[r].pc = "done" /\ ses[r].browser # "none") =>
            /\ ses[r].launches = 1
            /\ ses[r].closes = 1
            /\ ses[r].browser = "closed"

(***************************************************************************)
(* C2: no response has been sent for a request while that request's        *)
(* browser is still open.                                                  *)
(***************************************************************************)
C2_ClosedBeforeResponse ==
    \A r \in Slots : Answered(ses[r]) => ses[r].browser # "open"

(***************************************************************************)
(* C3 as stated: a request to /generate-pdf that carries the secret in the *)
(* x-api-key header or in the api_key query parameter reaches the handler; *)
(* every other request is answered 401 and the handler is never run.       *)
(***************************************************************************)
C3_SecretAnywherePasses ==
    \A r \in Slots :
        IsGeneration(ses[r]) =>
            IF ses[r].rq.hdrKey = API_KEY \/ ses[r].rq.qKey = API_KEY
            THEN HandlerRan(ses[r])
            ELSE Is401(ses[r].res) /\ ~HandlerRan(ses[r])

(***************************************************************************)
(* C3 amended: the request reaches the handler exactly when the credential *)
(* the middleware checks (the x-api-key header when non-empty, otherwise   *)
(* the api_key query parameter) equals the secret; every other request is  *)
(* answered 401 with one of the two messages, runs no handler and launches *)
(* no browser.                                                             *)
(***************************************************************************)
C3_CheckedKeyDecides ==
    \A r \in Slots :
        IsGeneration(ses[r]) =>
            IF CheckedKey(ses[r].rq) = API_KEY
            THEN HandlerRan(ses[r])
            ELSE /\ Is401(ses[r].res)
                 /\ ~HandlerRan(ses[r])
                 /\ ses[r].launches = 0
                 /\ ses[r].pc = "done"

\* the secret arrives in the query parameter, no header, and a handler starts generating
C3_Witness ==
    \E r \in Slots :
        /\ ses[r].rq.hdrKey = None /\ ses[r].rq.qKey = API_KEY
        /\ ses[r].handler = "post" /\ ses[r].pc = "launch"

(***************************************************************************)
(* C4 as stated: every request to /generate-pdf without a target address   *)
(* is answered 400.                                                        *)
(***************************************************************************)
C4_MissingUrlAlways400 ==
    \A r \in Slots :
        (IsGeneration(ses[r]) /\ TargetOf(ses[r].rq) = None) =>
            ses[r].res.status = 400

(***************************************************************************)
(* C4 amended: every request to /generate-pdf that passes requireApiKey    *)
(* and has no target address is answered 400 with a JSON error, whatever   *)
(* other fields it carries, and launches nothing.                          *)
(***************************************************************************)
C4_AuthenticatedMissingUrl400 ==
    \A r \in Slots :
        ( /\ IsGeneration(ses[r])
          /\ CheckedKey(ses[r].rq) = API_KEY
          /\ TargetOf(ses[r].rq) = None ) =>
            /\ ses[r].res.status = 400
            /\ ses[r].res.error # ""
            /\ ses[r].res.ctype = "application/json"
            /\ ses[r].launches = 0

\* an authenticated POST without url, with every other field supplied, got its 400
C4_Witness ==
    \E r \in Slots :
        /\ ses[r].rq.method = "POST" /\ ses[r].handler = "post"
        /\ ses[r].rq.body.url = None
        /\ ses[r].rq.body.format # None /\ ses[r].rq.body.timeout # None
        /\ ses[r].res.status = 400

(***************************************************************************)
(* C5: a request whose navigation has been issued is eventually answered   *)
(* (by the navigation timeout when navigation never completes).            *)
(***************************************************************************)
C5_NavigationAnswered ==
    \A r \in Slots : (ses[r].pc = "goto") ~> Answered(ses[r])

(***************************************************************************)
(* C6: a GET and a POST to /generate-pdf with the same credential, url,    *)
(* format and landscape are classified alike (both rejected with the same  *)
(* status, or both start a generation) and hand the engine the same        *)
(* viewport, navigation arguments and export options.                      *)
(***************************************************************************)
C6_GetMatchesPost ==
    \A g \in Slots, p \in Slots :
        (EquivalentInputs(ses[g].rq, ses[p].rq)) =>
            /\ ses[g].launches = ses[p].launches
            /\ (ses[g].pc = "unanswered") = (ses[p].pc = "unanswered")
            /\ (ses[g].launches = 0 => ses[g].res.status = ses[p].res.status)
            /\ (ses[g].vp # None /\ ses[p].vp # None => ses[g].vp = ses[p].vp)
            /\ (ses[g].nav # NoNav /\ ses[p].nav # NoNav => ses[g].nav = ses[p].nav)
            /\ (ses[g].pdfOpts # NoPdfOpts /\ ses[p].pdfOpts # NoPdfOpts
                  => ses[g].pdfOpts = ses[p].pdfOpts)

(***************************************************************************)
(* C7: once a generation handler has called the engine, the request is     *)
(* never left unanswered by a failed step: a request that ended without    *)
(* the document was answered once, with 500, a JSON body carrying the      *)
(* error and the failed step's message, and a stack exactly when NODE_ENV  *)
(* is 'development'.                                                       *)
(***************************************************************************)
C7_FailuresAnswered500 ==
    \A r \in Slots :
        ses[r].launches > 0 =>
            /\ ses[r].pc \in GenPcs \cup {"done"}
            /\ (ses[r].pc \in GenPcs => ~Answered(ses[r]))
            /\ (ses[r].pc = "done" /\ ses[r].res.status # 200) =>
                  /\ ses[r].sends = 1
                  /\ ses[r].res.status = 500
                  /\ ses[r].res.ctype = "application/json"
                  /\ ses[r].res.error = "Failed to generate PDF"
                  /\ ses[r].res.message \in StepFailures
                  /\ ses[r].res.stack = (nodeEnv = Some("development"))

\* a navigation timeout outside development: 500 without a stack
C7_Witness ==
    \E r \in Slots :
        /\ ses[r].res.status = 500
        /\ ses[r].res.message = "Navigation timeout"
        /\ nodeEnv # Some("development")
        /\ ~ses[r].res.stack

(***************************************************************************)
(* C8: every successful generation response carries the exported document *)
(* as its payload, Content-Type application/pdf, an attachment             *)
(* Content-Disposition with a filename, and a Content-Length equal to the  *)
(* number of bytes written.                                                *)
(***************************************************************************)
C8_SuccessResponse ==
    \A r \in Slots :
        (IsGeneration(ses[r]) /\ ses[r].res.status = 200) =>
            /\ ses[r].pdf # None
            /\ ses[r].res.payload = ses[r].pdf[1]
            /\ ses[r].res.ctype = "application/pdf"
            /\ ses[r].res.cdisp = "attachment; filename=\"document.pdf\""
            /\ ses[r].res.clen = Some(Len(ses[r].res.payload))

\* a GET answered with a one-byte document
C8_Witness ==
    \E r \in Slots :
        /\ ses[r].handler = "get" /\ ses[r].res.status = 200
        /\ Len(ses[r].res.payload) = 1

(***************************************************************************)
(* C9: GET /health is answered 200 with status 'ok' whatever credential    *)
(* the request carries, and never calls the engine.                        *)
(***************************************************************************)
C9_HealthAlwaysOk ==
    \A r \in Slots :
        (Arrived(ses[r]) /\ ses[r].rq.path = "/health") =>
            /\ ses[r].res.status = 200
            /\ ses[r].res.json = "ok"
            /\ ses[r].sends = 1
            /\ ses[r].launches = 0
            /\ ses[r].browser = "none"

\* /health answered for a request carrying a wrong key
C9_Witness ==
    \E r \in Slots :
        /\ ses[r].rq.path = "/health"
        /\ ses[r].rq.hdrKey \notin {None, Some(""), API_KEY}
        /\ ses[r].res.status = 200

(***************************************************************************)
(* C10, state part: the secret is the value read at boot; with an absent   *)
(* or empty secret the process exits without listening; so                 *)
(* whenever a request is being handled the service is listening and the    *)
(* secret is a non-empty string.                                           *)
(***************************************************************************)
C10_SecretState ==
    /\ (phase # "boot" => API_KEY = envKey)
    /\ (~Truthy(envKey) => phase \in {"boot", "exited"})
    /\ (phase = "listening" => Truthy(API_KEY))
    /\ \A r \in Slots :
          Arrived(ses[r]) =>
              phase = "listening" /\ API_KEY # None /\ API_KEY # Some("")

\* C10: the state part holds in every reachable state, and no step after boot
\* changes the secret
C10_SecretFixedAtBoot ==
    /\ []C10_SecretState
    /\ [][phase # "boot" => API_KEY' = API_KEY]_vars

\* booted with an empty secret: the process has exited
C10_Witness == envKey = Some("") /\ phase = "exited"

(***************************************************************************)
(* C11: a GET /generate-pdf hands the engine what the caller supplied: the *)
(* viewport is the parsed viewport_width and viewport_height (1440 and 900 *)
(* where the value does not parse), and the export uses the caller's       *)
(* format and landscape.                                                   *)
(***************************************************************************)
C11_GetFieldsReachEngine ==
    \A r \in Slots :
        (ses[r].rq.method = "GET" /\ IsGeneration(ses[r])) =>
            /\ ses[r].vp # None =>
                  /\ ses[r].vp[1].width =
                        ParseIntOr(ses[r].rq.query.viewport_width, 1440)
                  /\ ses[r].vp[1].height =
                        ParseIntOr(ses[r].rq.query.viewport_height, 900)
            /\ ses[r].pdfOpts # NoPdfOpts =>
                  /\ (ses[r].rq.query.format # None
                        => ses[r].pdfOpts.format = ses[r].rq.query.format)
                  /\ ses[r].pdfOpts.landscape
                        = (ses[r].rq.query.landscape = Some("true"))

(***************************************************************************)
(* C12: every navigation a handler has issued carries a non-empty target   *)
(* address and a timeout greater than 0.                                   *)
(***************************************************************************)
C12_NavigationArguments ==
    \A r \in Slots :
        ses[r].nav # NoNav => ses[r].nav.url # "" /\ ses[r].nav.timeout > 0

(***************************************************************************)
(* C13: GET /debug never calls the engine, and its answer is the answer    *)
(* that an instance with any other secret of the same length gives to the  *)
(* same request.                                                           *)
(***************************************************************************)
Secrets == {Some("k1"), Some("k2")}

\* what an instance of the deployed file whose secret is key answers to rq
DebugAnswerOf(key, rq) ==
    IF variant = "part_000" THEN DebugResponse(key, rq) ELSE NotFound

C13_DebugSeesLengthOnly ==
    \A r \in Slots :
        (Arrived(ses[r]) /\ ses[r].rq.path = "/debug") =>
            /\ ses[r].launches = 0 /\ ses[r].browser = "none"
            /\ ses[r].sends = 1
            /\ \A key \in Secrets :
                  Len(key[1]) = Len(envKey[1]) =>
                      ses[r].res = DebugAnswerOf(key, ses[r].rq)

\* the snapshot was sent for a request whose header carries the secret itself
C13_Witness ==
    \E r \in Slots :
        /\ ses[r].handler = "debug" /\ ses[r].rq.hdrKey = envKey
        /\ ses[r].res.debug # None
        /\ ses[r].res.debug[1].apiKeyLength = 2

(***************************************************************************)
(* C14: authentication, then the target address, then generation: a        *)
(* request to /generate-pdf that fails authentication is answered 401 even *)
(* when it has no target address, an authenticated one without a target    *)
(* address is answered 400, and the engine is only ever called for an      *)
(* authenticated request with a target address.                            *)
(***************************************************************************)
C14_AuthThenUrlThenEngine ==
    \A r \in Slots :
        IsGeneration(ses[r]) =>
            /\ CheckedKey(ses[r].rq) # API_KEY =>
                  ses[r].res.status = 401 /\ ses[r].launches = 0
            /\ (CheckedKey(ses[r].rq) = API_KEY /\ ~Truthy(TargetOf(ses[r].rq))) =>
                  ses[r].res.status = 400 /\ ses[r].launches = 0
            /\ ses[r].launches > 0 =>
                  CheckedKey(ses[r].rq) = API_KEY /\ Truthy(TargetOf(ses[r].rq))

\* a POST with a wrong key and no url was answered 401
C14_Witness ==
    \E r \in Slots :
        /\ ses[r].rq.method = "POST" /\ ses[r].rq.path \in GenPaths
        /\ Truthy(CheckedKey(ses[r].rq)) /\ CheckedKey(ses[r].rq) # API_KEY
        /\ ses[r].rq.body.url = None
        /\ ses[r].res.status = 401

(***************************************************************************)
(* C17: requireApiKey decides on one credential, the x-api-key header when *)
(* it is present and non-empty and otherwise the api_key query parameter.  *)
(* A request it stops is answered 'API key required' exactly when neither  *)
(* is present or both are empty, and 'Invalid API key' exactly when the    *)
(* credential it checks is there and differs from the secret; with a       *)
(* non-empty header the query parameter has no influence.  The request     *)
(* object src/server.js forwards to the router carries no credential and   *)
(* is judged like any other request without one.                           *)
(***************************************************************************)
C17_OneCredentialChecked ==
    \A r \in Slots :
        IsGeneration(ses[r]) =>
            LET s == ses[r]
                \* the request object the last run of requireApiKey was given
                seen == IF variant = "server.js" /\ s.handler = "get"
                        THEN ForwardedRequest(s.rq.query) ELSE s.rq
                rejected == s.res.status = 401
            IN  /\ HandlerRan(s) = (CheckedKey(s.rq) = API_KEY)
                /\ ~HandlerRan(s) => rejected
                /\ rejected =>
                      /\ CheckedKey(seen) # API_KEY
                      /\ (s.res.error = "API key required")
                            = (~Truthy(seen.hdrKey) /\ ~Truthy(seen.qKey))
                      /\ (s.res.error = "Invalid API key") = Truthy(CheckedKey(seen))
                /\ Truthy(s.rq.hdrKey) => (HandlerRan(s) = (s.rq.hdrKey = API_KEY))

\* an empty header and an empty query parameter: 'API key required'
C17_Witness ==
    \E r \in Slots :
        /\ ses[r].rq.hdrKey = Some("") /\ ses[r].rq.qKey = Some("")
        /\ ses[r].res.error = "API key required"

(***************************************************************************)
(* C15: the engine calls of one request are a prefix of launch, newPage,   *)
(* setViewport, goto, pdf, close, so each is made at most once and in that *)
(* order; a call is made only after every earlier call resolved, so pdf is *)
(* called only after goto resolved; and a request that has been answered   *)
(* or abandoned makes no further call.                                     *)
(***************************************************************************)
C15_CallsInOrder ==
    \A r \in Slots :
        LET s == ses[r]
            n == Len(s.calls)
        IN  /\ IsPrefix(s.calls, EngineOrder)
            /\ s.pc \in GenPcs => (n > 0 /\ s.calls[n] = s.pc /\ Len(s.outcomes) = n - 1)
            /\ s.pc \notin GenPcs => Len(s.outcomes) = n
            /\ \A i \in 1..Len(s.outcomes) : i < n => s.outcomes[i]
            /\ s.launches = (IF n >= 1 THEN 1 ELSE 0)
            /\ s.closes = (IF n >= 6 THEN 1 ELSE 0)

C15_NoCallAfterTheEnd ==
    \A r \in Slots :
        ses[r].pc \in {"done", "unanswered"} =>
            /\ ses'[r].calls = ses[r].calls
            /\ ses'[r].outcomes = ses[r].outcomes

C15_EngineStepsInOrder == []C15_CallsInOrder /\ [][C15_NoCallAfterTheEnd]_vars

\* a navigation was rejected: four calls were made, pdf and close never
C15_Witness ==
    \E r \in Slots :
        /\ ses[r].calls = SubSeq(EngineOrder, 1, 4)
        /\ ses[r].outcomes = <<TRUE, TRUE, TRUE, FALSE>>
        /\ ses[r].pc = "done" /\ ses[r].res.status = 500

(***************************************************************************)
(* C18: a request to /generate-pdf is sent at most one response, whatever  *)
(* fails on the way, a rejected browser.close after the document was       *)
(* produced and a connection lost under the payload included; a response   *)
(* once sent is never followed or replaced by another.                     *)
(***************************************************************************)
C18_OneSend ==
    \A r \in Slots :
        IsGeneration(ses[r]) =>
            /\ ses[r].sends <= 1
            /\ Answered(ses[r]) = (ses[r].sends = 1)
            /\ ses[r].cut => (ses[r].sends = 1 /\ ses[r].res.status = 200)

C18_SentStays ==
    \A r \in Slots :
        ses[r].sends >= 1 => (ses'[r].sends = ses[r].sends /\ ses'[r].res = ses[r].res)

C18_AtMostOneResponse == []C18_OneSend /\ [][C18_SentStays]_vars

\* browser.close was rejected after the document had been produced
C18_Witness ==
    \E r \in Slots :
        /\ ses[r].pdf # None /\ ses[r].outcomes = <<TRUE, TRUE, TRUE, TRUE, TRUE, FALSE>>
        /\ ses[r].res.message = "close failed"
        /\ ses[r].sends = 1

(***************************************************************************)
(* C16: with several generation requests in flight, the browser of a       *)
(* request is opened by that request's own launch and closed by that       *)
(* request's own close and by nothing else, and a step of one request,     *)
(* failing or not, changes nothing of any other request.                   *)
(***************************************************************************)
C16_OwnBrowser ==
    \A r \in Slots :
        LET s == ses[r]
        IN  /\ (s.browser # "none") = (Len(s.outcomes) >= 1 /\ s.outcomes[1])
            /\ s.browser = "closed" => (Len(s.outcomes) = 6 /\ s.calls[6] = "close")
            /\ (Len(s.outcomes) = 6 /\ s.outcomes[6]) => s.browser = "closed"

C16_OthersUntouched ==
    \A r \in Slots :
        ses'[r] # ses[r] => \A q \in Slots \ {r} : ses'[q] = ses[q]

C16_SessionsIndependent == []C16_OwnBrowser /\ [][C16_OthersUntouched]_vars

\* one request failed at its navigation while another, launched meanwhile,
\* got its document
C16_Witness ==
    \E r, q \in Slots :
        /\ r # q
        /\ ses[r].res.message = "navigation failed" /\ ses[r].browser = "open"
        /\ ses[q].res.status = 200 /\ ses[q].browser = "closed"

====
